---- MODULE Spec2Model ----
(***************************************************************************)
(* Verification model of the Pitch-Pipe calibration pipeline:              *)
(*   estimators.rs  RunningStatistics, MaxDistanceEstimator,               *)
(*                  ThreeAxisMaxDistanceEstimator, NoiseEstimator<N>,      *)
(*                  SixtyHzThreeAxisNoiseEstimator                         *)
(*   calibrator.rs  Calibrator                                             *)
(*   tuner.rs       Grid, Tuner                                            *)
(*                                                                         *)
(* Numbers.  f64 values are modelled by exact rationals <<n, d>> in lowest *)
(* terms with d > 0; <<0, 0>> is NaN and <<1, 0>> / <<-1, 0>> are the      *)
(* infinities.  Rounding error of the f64 operations is not modelled.      *)
(* Option<T> is modelled by a sequence of length 0 (None) or 1 (Some).     *)
(***************************************************************************)
EXTENDS Integers, Sequences, FiniteSets, TLC

(***************************************************************************)
(* Rational arithmetic                                                     *)
(***************************************************************************)
Abs(i) == IF i < 0 THEN -i ELSE i

RECURSIVE Gcd(_, _)
Gcd(a, b) == IF b = 0 THEN a ELSE Gcd(b, a % b)

\* the rational n/d in lowest terms (d # 0)
Q(n, d) ==
    LET g == Gcd(Abs(n), Abs(d))
        s == IF d < 0 THEN -1 ELSE 1
    IN  <<(s * n) \div g, (s * d) \div g>>

QI(i) == <<i, 1>>
NaN == <<0, 0>>
IsNaN(a) == a = NaN
IsFinite(a) == a[2] # 0

QNeg(a) == <<-a[1], a[2]>>
\* sums and products reduce by common factors before they multiply
QAdd(a, b) ==
    IF IsFinite(a) /\ IsFinite(b)
    THEN LET g == Gcd(a[2], b[2])
         IN  Q(a[1] * (b[2] \div g) + b[1] * (a[2] \div g), (a[2] \div g) * b[2])
    ELSE NaN
QSub(a, b) == QAdd(a, QNeg(b))
QMul(a, b) ==
    IF IsFinite(a) /\ IsFinite(b)
    THEN LET g1 == Gcd(Abs(a[1]), b[2])
             g2 == Gcd(Abs(b[1]), a[2])
         IN  <<(a[1] \div g1) * (b[1] \div g2), (a[2] \div g2) * (b[2] \div g1)>>
    ELSE NaN
\* IEEE division: x/0 is an infinity for x # 0 and NaN for x = 0
QDiv(a, b) ==
    IF ~(IsFinite(a) /\ IsFinite(b)) THEN NaN
    ELSE IF b[1] = 0 THEN (IF a[1] = 0 THEN NaN ELSE IF a[1] > 0 THEN <<1, 0>> ELSE <<-1, 0>>)
    ELSE IF b[1] > 0 THEN QMul(a, <<b[2], b[1]>>)
    ELSE QMul(a, <<-b[2], -b[1]>>)
\* a/b < c/d for b, d > 0, by comparing the continued fractions (no products)
RECURSIVE FracLt(_, _, _, _)
FracLt(a, b, c, d) ==
    LET qa == a \div b
        qc == c \div d
        ra == a % b
        rc == c % d
    IN  IF qa # qc THEN qa < qc
        ELSE IF rc = 0 THEN FALSE
        ELSE IF ra = 0 THEN TRUE
        ELSE FracLt(d, rc, b, ra)
\* comparisons of finite rationals
QLt(a, b) == FracLt(a[1], a[2], b[1], b[2])
QLe(a, b) == ~FracLt(b[1], b[2], a[1], a[2])
QMax(a, b) == IF QLt(a, b) THEN b ELSE a
QFloor(a) == a[1] \div a[2]
QCeil(a) == -((-a[1]) \div a[2])

\* Option<T>
None == <<>>
Some(v) == <<v>>
IsSome(o) == Len(o) = 1
Unwrap(o) == o[1]

\* f64::MAX and f64::MIN: above / below every other value of the model
F64_MAX == 1000000
F64_MIN == -1000000

(***************************************************************************)
(* estimators.rs: RunningStatistics                                        *)
(*                                                                         *)
(* ci95 = 1.96 * sqrt(sample_variance / count) is kept as the pair         *)
(* <<coefficient, radicand>>, so that no square root has to be taken.      *)
(***************************************************************************)
RunningStatisticsDefault ==
    [count |-> 0, mean |-> QI(0), m2 |-> QI(0), sample_variance |-> QI(0),
     ci95 |-> <<QI(0), QI(0)>>, max |-> QI(F64_MIN)]

RunningStatisticsUpdate(s, val) ==
    LET count  == s.count + 1
        delta  == QSub(val, s.mean)
        mean   == QAdd(s.mean, QDiv(delta, QI(count)))
        delta2 == QSub(val, mean)
        m2     == QAdd(s.m2, QMul(delta, delta2))
        sv     == QDiv(m2, QI(count - 1))
    IN  [count |-> count, mean |-> mean, m2 |-> m2,
         max |-> QMax(val, s.max),
         sample_variance |-> sv,
         ci95 |-> <<Q(196, 100), QDiv(sv, QI(count))>>]

\* (2.0 * ci95) / mean < threshold, with the IEEE outcomes of 0/0 and x/0
RatioBelow(stats, threshold) ==
    LET coef == stats.ci95[1]
        rad  == stats.ci95[2]
    IN  IF IsNaN(rad) THEN FALSE
        ELSE IF stats.mean[1] = 0 THEN FALSE
        ELSE IF stats.mean[1] < 0 THEN TRUE
        ELSE LET ratio_sq == QDiv(QMul(QMul(QI(4), QMul(coef, coef)), rad),
                                  QMul(stats.mean, stats.mean))
             IN  QLt(ratio_sq, QMul(threshold, threshold))

(***************************************************************************)
(* estimators.rs: NoiseEstimator<N>                                        *)
(*                                                                         *)
(* The estimator is generic in N; the calibrator instantiates N = 60 with  *)
(* 20 monitored frequencies.  The model instantiates N = 4, for which the  *)
(* phase rotators exp(-2*pi*i*k/N) are the Gaussian units 1, -i, -1, i and *)
(* cos(2*pi*hz/(N-1)) is 1 or -1/2, so that every value is an exact        *)
(* rational.  Complex numbers are pairs <<re, im>> of integers.            *)
(***************************************************************************)
N == 4
\* number of monitored frequencies per axis (20 in the 60 Hz estimator)
FreqCnt == 1

CAdd(a, b) == <<a[1] + b[1], a[2] + b[2]>>
CSub(a, b) == <<a[1] - b[1], a[2] - b[2]>>
CMul(a, b) == <<a[1] * b[1] - a[2] * b[2], a[1] * b[2] + a[2] * b[1]>>
CNormSq(a) == a[1] * a[1] + a[2] * a[2]

\* Complex::new(0.0, -2.0 * PI * k / N).exp() for N = 4
Rotator(k) ==
    LET r == k % N
    IN  CASE r = 0 -> <<1, 0>>
          [] r = 1 -> <<0, -1>>
          [] r = 2 -> <<-1, 0>>
          [] r = 3 -> <<0, 1>>

\* (2.0 * PI * hz / (N - 1)).cos() for N = 4
HannCos(hz) == IF hz % (N - 1) = 0 THEN QI(1) ELSE Q(-1, 2)

RECURSIVE HannSum(_)
HannSum(hz) ==
    IF hz < 0 THEN QI(0)
    ELSE LET win == QSub(Q(1, 2), QMul(Q(1, 2), HannCos(hz)))
         IN  QAdd(HannSum(hz - 1), QMul(win, win))

NoiseEstimatorNew(monitor_hz) ==
    LET k == (N \div 2) - monitor_hz
    IN  [sample_hz |-> N,
         samples   |-> [i \in 1..N |-> <<0, 0>>],
         power     |-> QI(0),
         count     |-> 0,
         x0 |-> <<0, 0>>, x1 |-> <<0, 0>>, x2 |-> <<0, 0>>,
         w0 |-> Rotator(k - 1), w1 |-> Rotator(k), w2 |-> Rotator(k + 1),
         w  |-> HannSum(N - 1)]

\* |0.5*x1 - 0.25*x0 - 0.25*x2|^2
PowerTerm(x0, x1, x2) ==
    Q(CNormSq(CSub(CSub(CAdd(x1, x1), x0), x2)), 16)

\* power starting to accumulate one update late
PowerGateLate(count, sample_hz) == count > sample_hz

\* the test that lets update add a term to power: self.count >= self.sample_hz
PowerGate(count, sample_hz) == count >= sample_hz

NoiseEstimatorUpdate(e, sample) ==
    LET smp    == <<sample, 0>>
        oldest == e.samples[1]
        x0     == CMul(e.w0, CSub(CAdd(e.x0, smp), oldest))
        x1     == CMul(e.w1, CSub(CAdd(e.x1, smp), oldest))
        x2     == CMul(e.w2, CSub(CAdd(e.x2, smp), oldest))
        count  == e.count + 1
    IN  [e EXCEPT !.x0 = x0, !.x1 = x1, !.x2 = x2,
                  !.samples = Append(Tail(e.samples), smp),
                  !.count = count,
                  !.power = IF PowerGate(count, e.sample_hz)
                            THEN QAdd(e.power, PowerTerm(x0, x1, x2))
                            ELSE e.power]

\* variance with the test count <= sample_hz + 1
NoiseEstimatorVarianceLate(e) ==
    IF e.count <= e.sample_hz + 1 THEN None
    ELSE Some(QDiv(e.power, QMul(QI(e.count - e.sample_hz), e.w)))

NoiseEstimatorVariance(e) ==
    IF e.count <= e.sample_hz THEN None
    ELSE Some(QDiv(e.power, QMul(QI(e.count - e.sample_hz), e.w)))

(***************************************************************************)
(* estimators.rs: SixtyHzThreeAxisNoiseEstimator                           *)
(***************************************************************************)
NoiseEstimators == [i \in 1..FreqCnt |-> NoiseEstimatorNew(i - 1)]

SixtyHzThreeAxisNoiseEstimatorNew ==
    [x |-> NoiseEstimators, y |-> NoiseEstimators, z |-> NoiseEstimators,
     stats |-> RunningStatisticsDefault, threshold |-> Q(1, 10)]

\* one pass of the loop body for frequency i
ThreeAxisNoiseStep(t, i, x, y, z) ==
    LET ex == NoiseEstimatorUpdate(t.x[i], x)
        ey == NoiseEstimatorUpdate(t.y[i], y)
        ez == NoiseEstimatorUpdate(t.z[i], z)
        vx == NoiseEstimatorVariance(ex)
        vy == NoiseEstimatorVariance(ey)
        vz == NoiseEstimatorVariance(ez)
        u  == [t EXCEPT !.x[i] = ex, !.y[i] = ey, !.z[i] = ez]
    IN  IF IsSome(vx) /\ IsSome(vy) /\ IsSome(vz)
        THEN [u EXCEPT !.stats =
                 RunningStatisticsUpdate(
                   RunningStatisticsUpdate(
                     RunningStatisticsUpdate(t.stats, Unwrap(vx)), Unwrap(vy)), Unwrap(vz))]
        ELSE u

RECURSIVE ThreeAxisNoiseLoop(_, _, _, _, _)
ThreeAxisNoiseLoop(t, i, x, y, z) ==
    IF i > FreqCnt THEN t
    ELSE ThreeAxisNoiseLoop(ThreeAxisNoiseStep(t, i, x, y, z), i + 1, x, y, z)

\* the estimator after update(x, y, z) and the value update returns
SixtyHzUpdate(t, x, y, z) == ThreeAxisNoiseLoop(t, 1, x, y, z)
SixtyHzUpdateResult(t) == RatioBelow(t.stats, t.threshold)

MeanVariance(t) == t.stats.mean

(***************************************************************************)
(* estimators.rs: MaxDistanceEstimator, ThreeAxisMaxDistanceEstimator      *)
(***************************************************************************)
SpeedSlots == 5

MaxDistanceEstimatorNew ==
    [previous |-> None, speeds |-> [i \in 1..SpeedSlots |-> QI(0)]]

\* the slot of the last maximum (what max_by would yield)
MaxSlot(speeds) ==
    CHOOSE i \in 1..SpeedSlots :
        /\ \A j \in 1..SpeedSlots : QLe(speeds[j], speeds[i])
        /\ \A j \in (i + 1)..SpeedSlots : QLt(speeds[j], speeds[i])

\* index of the slot iter().min_by(total_cmp) yields: the first minimum
MinSlot(speeds) ==
    CHOOSE i \in 1..SpeedSlots :
        /\ \A j \in 1..SpeedSlots : QLe(speeds[i], speeds[j])
        /\ \A j \in 1..(i - 1) : QLt(speeds[i], speeds[j])

QAbs(a) == <<Abs(a[1]), a[2]>>

\* delta > 3.0 * stddev (line 69)
Significant(delta, stddev) == QLt(QMul(QI(3), stddev), delta)

MaxDistanceUpdate(m, sample, stddev) ==
    IF IsSome(m.previous)
    THEN LET delta == QAbs(QSub(Unwrap(m.previous), sample))
             min   == MinSlot(m.speeds)
         IN  [previous |-> Some(sample),
              speeds |-> IF Significant(delta, stddev) /\ QLt(m.speeds[min], delta)
                         THEN [m.speeds EXCEPT ![min] = delta]
                         ELSE m.speeds]
    ELSE [m EXCEPT !.previous = Some(sample)]

MaxWithinReason(m) == m.speeds[MinSlot(m.speeds)]

ThreeAxisMaxDistanceEstimatorNew(noise_std_dev) ==
    [noise_std_dev |-> noise_std_dev,
     x |-> MaxDistanceEstimatorNew, y |-> MaxDistanceEstimatorNew, z |-> MaxDistanceEstimatorNew]

ThreeAxisMaxDistanceUpdate(a, x, y, z) ==
    [a EXCEPT !.x = MaxDistanceUpdate(a.x, x, a.noise_std_dev),
              !.y = MaxDistanceUpdate(a.y, y, a.noise_std_dev),
              !.z = MaxDistanceUpdate(a.z, z, a.noise_std_dev)]

ThreeAxisMaxWithinReason(a) ==
    QMax(QMax(MaxWithinReason(a.x), MaxWithinReason(a.y)), MaxWithinReason(a.z))

(***************************************************************************)
(* calibrator.rs: Calibrator                                               *)
(*                                                                         *)
(* calibrator is the Calibrator object.  ret records the last call, its    *)
(* arguments and the value it returned.  noise_done is a history variable: *)
(* some process_noise call has returned true.  amp_calls counts the        *)
(* process_amplitude calls.                                                *)
(***************************************************************************)
VARIABLES calibrator, ret, noise_done, amp_calls

\* a NoiseEstimator<N> on its own: the estimator, the number of update calls
\* made and (history) the terms update has added to power
VARIABLES ne, ne_calls, ne_terms

\* a MaxDistanceEstimator on its own: the estimator, the stddev its updates
\* are called with and (history) every delta |previous - sample| seen
VARIABLES mde, mde_stddev, mde_deltas

\* Grid on its own: the last call of Grid::precision or Grid::get_beta_index,
\* with its arguments and its result
VARIABLES grid_call

\* a Tuner running tune(): the Tuner object, the local variables and the
\* position of tune(), the value tune() returned and (history) what happened
\* to the last candidate and in the current sweep
VARIABLES tuner, tune, tune_ret, tune_obs

cal_vars  == <<calibrator, ret, noise_done, amp_calls>>
ne_vars   == <<ne, ne_calls, ne_terms>>
mde_vars  == <<mde, mde_stddev, mde_deltas>>
grid_vars == <<grid_call>>
tune_vars == <<tuner, tune, tune_ret, tune_obs>>
vars == <<cal_vars, ne_vars, mde_vars, grid_vars, tune_vars>>

not_cal  == <<ne_vars, mde_vars, grid_vars, tune_vars>>
not_ne   == <<cal_vars, mde_vars, grid_vars, tune_vars>>
not_mde  == <<cal_vars, ne_vars, grid_vars, tune_vars>>
not_grid == <<cal_vars, ne_vars, mde_vars, tune_vars>>
not_tune == <<cal_vars, ne_vars, mde_vars, grid_vars>>

\* the value of the variables of an object that a specification does not use
Idle == <<>>
NeIdle  == ne = Idle /\ ne_calls = 0 /\ ne_terms = Idle
MdeIdle == mde = Idle /\ mde_stddev = Idle /\ mde_deltas = Idle
CalIdle == calibrator = Idle /\ ret = Idle /\ noise_done = FALSE /\ amp_calls = 0
GridIdle == grid_call = Idle
TuneIdle == tuner = Idle /\ tune = Idle /\ tune_ret = Idle /\ tune_obs = Idle

\* bounds on the length of the call sequences
MaxNoiseCalls == 6
MaxAmpCalls == 2

\* inputs
LeastPrecisions == {QI(1)}
WorstLags == {Q(1, 20)}
NoiseTriples == {<<0, 0, 0>>, <<1, -1, 1>>}
AmpTriples == {<<0, 0, 0>>, <<4, 0, 1>>}

CalibratorNew(least_precision, worst_lag_secs) ==
    [least_precision |-> least_precision,
     worst_lag_secs  |-> worst_lag_secs,
     state           |-> "WaitToStart",
     noise_estimator |-> SixtyHzThreeAxisNoiseEstimatorNew,
     noise_std_dev   |-> None,
     amplitude_estimator |-> None,
     amplitude       |-> None]

CalInit ==
    /\ \E lp \in LeastPrecisions, wl \in WorstLags : calibrator = CalibratorNew(lp, wl)
    /\ ret = [op |-> "new", args |-> <<>>, value |-> None]
    /\ noise_done = FALSE
    /\ amp_calls = 0
    /\ NeIdle /\ MdeIdle /\ GridIdle /\ TuneIdle

prepare_noise ==
    /\ calibrator' = [calibrator EXCEPT !.state = "EstimateNoise"]
    /\ ret' = [op |-> "prepare_noise", args |-> <<>>, value |-> None]
    /\ UNCHANGED <<noise_done, amp_calls>>
    /\ UNCHANGED not_cal

\* process_noise without the construction of the amplitude estimator
process_noise_no_estimator(x, y, z) ==
    /\ calibrator.noise_estimator.x[1].count < MaxNoiseCalls
    /\ LET est      == SixtyHzUpdate(calibrator.noise_estimator, x, y, z)
           complete == SixtyHzUpdateResult(est)
       IN  /\ calibrator' =
                IF complete
                THEN [calibrator EXCEPT !.noise_estimator = est,
                                        !.state = "NoiseEstimateComplete"]
                ELSE [calibrator EXCEPT !.noise_estimator = est]
           /\ ret' = [op |-> "process_noise", args |-> <<x, y, z>>, value |-> complete,
                      was |-> calibrator.amplitude_estimator]
           /\ noise_done' = (noise_done \/ complete)
    /\ UNCHANGED amp_calls
    /\ UNCHANGED not_cal

\* process_noise that keeps an amplitude estimator it finds
process_noise_keeps_estimator(x, y, z) ==
    /\ calibrator.noise_estimator.x[1].count < MaxNoiseCalls
    /\ LET est      == SixtyHzUpdate(calibrator.noise_estimator, x, y, z)
           complete == SixtyHzUpdateResult(est)
           noise_std_dev == MeanVariance(est)
       IN  /\ calibrator' =
                IF complete
                THEN [calibrator EXCEPT
                        !.noise_estimator = est,
                        !.amplitude_estimator =
                            IF IsSome(@) THEN @
                            ELSE Some(ThreeAxisMaxDistanceEstimatorNew(noise_std_dev)),
                        !.state = "NoiseEstimateComplete"]
                ELSE [calibrator EXCEPT !.noise_estimator = est]
           /\ ret' = [op |-> "process_noise", args |-> <<x, y, z>>, value |-> complete,
                      was |-> calibrator.amplitude_estimator]
           /\ noise_done' = (noise_done \/ complete)
    /\ UNCHANGED amp_calls
    /\ UNCHANGED not_cal

process_noise(x, y, z) ==
    /\ calibrator.noise_estimator.x[1].count < MaxNoiseCalls
    /\ LET est      == SixtyHzUpdate(calibrator.noise_estimator, x, y, z)
           complete == SixtyHzUpdateResult(est)
           noise_std_dev == MeanVariance(est)
       IN  /\ calibrator' =
                IF complete
                THEN [calibrator EXCEPT
                        !.noise_estimator = est,
                        !.amplitude_estimator = Some(ThreeAxisMaxDistanceEstimatorNew(noise_std_dev)),
                        !.state = "NoiseEstimateComplete"]
                ELSE [calibrator EXCEPT !.noise_estimator = est]
           /\ ret' = [op |-> "process_noise", args |-> <<x, y, z>>, value |-> complete,
                      was |-> calibrator.amplitude_estimator]
           /\ noise_done' = (noise_done \/ complete)
    /\ UNCHANGED amp_calls
    /\ UNCHANGED not_cal

prepare_amplitude ==
    /\ IF ~IsSome(calibrator.noise_std_dev)
       THEN /\ ret' = [op |-> "prepare_amplitude", args |-> <<>>, value |-> FALSE]
            /\ UNCHANGED calibrator
       ELSE /\ calibrator' = [calibrator EXCEPT !.state = "EstimateAmplitude"]
            /\ ret' = [op |-> "prepare_amplitude", args |-> <<>>, value |-> TRUE]
    /\ UNCHANGED <<noise_done, amp_calls>>
    /\ UNCHANGED not_cal

process_amplitude(x, y, z) ==
    /\ amp_calls < MaxAmpCalls
    /\ amp_calls' = amp_calls + 1
    /\ IF IsSome(calibrator.amplitude_estimator)
       THEN /\ calibrator' = [calibrator EXCEPT !.amplitude_estimator =
                  Some(ThreeAxisMaxDistanceUpdate(Unwrap(calibrator.amplitude_estimator),
                                                  QI(x), QI(y), QI(z)))]
            /\ ret' = [op |-> "process_amplitude", args |-> <<x, y, z>>, value |-> TRUE]
       ELSE /\ UNCHANGED calibrator
            /\ ret' = [op |-> "process_amplitude", args |-> <<x, y, z>>, value |-> FALSE]
    /\ UNCHANGED noise_done
    /\ UNCHANGED not_cal

finalize_amplitude_processing ==
    /\ IF IsSome(calibrator.amplitude_estimator)
       THEN /\ calibrator' = [calibrator EXCEPT
                  !.amplitude = Some(ThreeAxisMaxWithinReason(Unwrap(calibrator.amplitude_estimator))),
                  !.state = "AmplitudeEstimateComplete"]
            /\ ret' = [op |-> "finalize_amplitude_processing", args |-> <<>>, value |-> TRUE]
       ELSE /\ UNCHANGED calibrator
            /\ ret' = [op |-> "finalize_amplitude_processing", args |-> <<>>, value |-> FALSE]
    /\ UNCHANGED <<noise_done, amp_calls>>
    /\ UNCHANGED not_cal

\* the record tuning_settings builds in its (Some, Some) arm
TuningSettings(c, noise_std_dev, amplitude) ==
    [max_target_precision |-> QDiv(c.least_precision, QI(3)),
     max_lag_secs   |-> c.worst_lag_secs,
     noise_variance |-> QMul(noise_std_dev, noise_std_dev),
     max_amplitude  |-> amplitude,
     sample_rate    |-> QI(60)]

tuning_settings ==
    /\ ret' = [op |-> "tuning_settings", args |-> <<>>,
               value |-> IF IsSome(calibrator.noise_std_dev) /\ IsSome(calibrator.amplitude)
                         THEN Some(TuningSettings(calibrator, Unwrap(calibrator.noise_std_dev),
                                                  Unwrap(calibrator.amplitude)))
                         ELSE None]
    /\ UNCHANGED <<calibrator, noise_done, amp_calls>>
    /\ UNCHANGED not_cal

CalNext ==
    \/ prepare_noise
    \/ \E t \in NoiseTriples : process_noise(t[1], t[2], t[3])
    \/ prepare_amplitude
    \/ \E t \in AmpTriples : process_amplitude(t[1], t[2], t[3])
    \/ finalize_amplitude_processing
    \/ tuning_settings

Spec == CalInit /\ [][CalNext]_vars

(***************************************************************************)
(* Calibrator: call ordering                                               *)
(***************************************************************************)
AmplitudeOps == {"process_amplitude", "finalize_amplitude_processing"}

\* C1: process_amplitude and finalize_amplitude_processing return false and
\* leave every Calibrator field unchanged while no process_noise call has
\* returned true; once one has, they return true, process_amplitude hands the
\* sample to the amplitude estimator and finalize_amplitude_processing stores
\* the estimator's max_within_reason() and sets AmplitudeEstimateComplete.
C1_AmplitudeNeedsNoise ==
    [][ret'.op \in AmplitudeOps =>
          IF ~noise_done
          THEN ret'.value = FALSE /\ calibrator' = calibrator
          ELSE /\ ret'.value = TRUE
               /\ IsSome(calibrator.amplitude_estimator)
               /\ ret'.op = "process_amplitude" =>
                    LET a == Unwrap(calibrator'.amplitude_estimator)
                    IN  /\ a.x.previous = Some(QI(ret'.args[1]))
                        /\ a.y.previous = Some(QI(ret'.args[2]))
                        /\ a.z.previous = Some(QI(ret'.args[3]))
                        /\ calibrator' = [calibrator EXCEPT !.amplitude_estimator = Some(a)]
               /\ ret'.op = "finalize_amplitude_processing" =>
                    calibrator' = [calibrator EXCEPT
                        !.amplitude = Some(ThreeAxisMaxWithinReason(
                                             Unwrap(calibrator.amplitude_estimator))),
                        !.state = "AmplitudeEstimateComplete"]
      ]_vars

\* C1 witness: after a completed noise estimate and amplitude samples,
\* finalize_amplitude_processing has returned true
C1_Witness ==
    /\ ret.op = "finalize_amplitude_processing"
    /\ ret.value = TRUE
    /\ noise_done
    /\ amp_calls > 0
    /\ calibrator.state = "AmplitudeEstimateComplete"

\* C2: prepare_amplitude returns true exactly when some earlier process_noise
\* call returned true, and then the state is EstimateAmplitude.
C2_PrepareAmplitudeAfterNoise ==
    ret.op = "prepare_amplitude" =>
        /\ ret.value = noise_done
        /\ noise_done => calibrator.state = "EstimateAmplitude"

\* C3: tuning_settings returns None unless process_noise and
\* finalize_amplitude_processing have both returned true, and then returns the
\* TuningSettings record (least_precision/3, worst_lag_secs, noise_std_dev
\* squared, the finalized amplitude, 60.0).
C3_TuningSettingsWhenComplete ==
    ret.op = "tuning_settings" =>
        IF noise_done /\ IsSome(calibrator.amplitude)
        THEN /\ IsSome(ret.value)
             /\ Unwrap(ret.value).max_target_precision = QDiv(calibrator.least_precision, QI(3))
             /\ Unwrap(ret.value).max_lag_secs = calibrator.worst_lag_secs
             /\ Unwrap(ret.value).max_amplitude = Unwrap(calibrator.amplitude)
             /\ Unwrap(ret.value).sample_rate = QI(60)
        ELSE ret.value = None

\* C4: when process_noise returns true the amplitude estimator is seeded
\* with the square root of the noise estimator's mean_variance().
C4_SeededWithStdDev ==
    (ret.op = "process_noise" /\ ret.value = TRUE) =>
        LET a == Unwrap(calibrator.amplitude_estimator)
        IN  QMul(a.noise_std_dev, a.noise_std_dev) = MeanVariance(calibrator.noise_estimator)

(***************************************************************************)
(* NoiseEstimator<N> on its own                                            *)
(***************************************************************************)
\* bound on the number of update calls
MaxNeCalls == 7
NeSamples == {-1, 0, 2}
MonitorHz == {0, 1}

NeInit ==
    /\ \E m \in MonitorHz : ne = NoiseEstimatorNew(m)
    /\ ne_calls = 0
    /\ ne_terms = <<>>
    /\ CalIdle /\ MdeIdle /\ GridIdle /\ TuneIdle

ne_update(sample) ==
    /\ ne_calls < MaxNeCalls
    /\ LET e == NoiseEstimatorUpdate(ne, sample)
       IN  /\ ne' = e
           /\ ne_terms' = IF PowerGate(e.count, e.sample_hz)
                          THEN Append(ne_terms, PowerTerm(e.x0, e.x1, e.x2))
                          ELSE ne_terms
    /\ ne_calls' = ne_calls + 1
    /\ UNCHANGED not_ne

NeNext == \E sample \in NeSamples : ne_update(sample)

SpecNE == NeInit /\ [][NeNext]_vars

RECURSIVE QSum(_)
QSum(seq) == IF seq = <<>> THEN QI(0) ELSE QAdd(seq[1], QSum(Tail(seq)))

\* C5: after k update calls variance() is None for k <= N and Some for k > N;
\* power is 0 for k < N and the sum of k-N+1 squared-magnitude terms for
\* k >= N; for k > N variance() is power / ((k-N) * w).
C5_VarianceAfterKUpdates ==
    LET k == ne_calls
        v == NoiseEstimatorVariance(ne)
    IN  /\ k <= N => v = None
        /\ k > N  => IsSome(v) /\ v = Some(QDiv(ne.power, QMul(QI(k - N), ne.w)))
        /\ k < N  => ne.power = QI(0) /\ Len(ne_terms) = 0
        /\ k >= N => Len(ne_terms) = k - N + 1 /\ ne.power = QSum(ne_terms)

\* C5 witness: more than N updates, a positive power and a defined variance
C5_Witness ==
    /\ ne_calls > N + 1
    /\ QLt(QI(0), ne.power)
    /\ IsSome(NoiseEstimatorVariance(ne))
    /\ Len(ne_terms) = ne_calls - N + 1

(***************************************************************************)
(* MaxDistanceEstimator on its own, updated with a fixed stddev            *)
(***************************************************************************)
\* bound on the number of update calls
MaxMdeCalls == 8
MdeSamples == {0, 1, 3}
MdeStdDevs == {QI(0), Q(1, 3), Q(2, 3)}

MdeInit ==
    /\ mde = MaxDistanceEstimatorNew
    /\ mde_stddev \in MdeStdDevs
    /\ mde_deltas = <<>>
    /\ CalIdle /\ NeIdle /\ GridIdle /\ TuneIdle

mde_update(sample) ==
    /\ Len(mde_deltas) + 1 < MaxMdeCalls
    /\ mde' = MaxDistanceUpdate(mde, QI(sample), mde_stddev)
    /\ mde_deltas' = IF IsSome(mde.previous)
                     THEN Append(mde_deltas, QAbs(QSub(Unwrap(mde.previous), QI(sample))))
                     ELSE mde_deltas
    /\ UNCHANGED <<mde_stddev, not_mde>>

MdeNext == \E sample \in MdeSamples : mde_update(sample)

SpecMDE == MdeInit /\ [][MdeNext]_vars

\* insertion into a sequence sorted in decreasing order
RECURSIVE InsertDesc(_, _)
InsertDesc(v, seq) ==
    IF seq = <<>> THEN <<v>>
    ELSE IF QLe(seq[1], v) THEN <<v>> \o seq
    ELSE <<seq[1]>> \o InsertDesc(v, Tail(seq))

RECURSIVE SortDesc(_)
SortDesc(seq) == IF seq = <<>> THEN <<>> ELSE InsertDesc(seq[1], SortDesc(Tail(seq)))

\* the deltas that strictly exceeded 3 * stddev
SignificantDeltas == SelectSeq(mde_deltas, LAMBDA d : QLt(QMul(QI(3), mde_stddev), d))

\* the five largest significant deltas, padded with 0
TopFive == SubSeq(SortDesc(SignificantDeltas \o [i \in 1..5 |-> QI(0)]), 1, 5)

LargestDelta == IF mde_deltas = <<>> THEN QI(0) ELSE SortDesc(mde_deltas)[1]

C6_TopFiveState ==
    /\ SortDesc(mde.speeds) = TopFive
    /\ MaxWithinReason(mde) = TopFive[5]
    /\ Len(SignificantDeltas) < 5 => MaxWithinReason(mde) = QI(0)
    /\ QLe(MaxWithinReason(mde), LargestDelta)

\* C6: the speeds array holds, as a multiset, the five largest deltas that
\* strictly exceeded 3*stddev, padded with 0; max_within_reason() is the
\* fifth largest of them (0 until five were seen), never exceeds the largest
\* observed delta and never decreases from one update to the next.
C6_TopFiveSignificantDeltas ==
    /\ []C6_TopFiveState
    /\ [][QLe(MaxWithinReason(mde), MaxWithinReason(mde'))]_vars

\* C6 witness: a sixth significant delta has displaced the smallest of five,
\* and the maxima kept are not all equal
C6_Witness ==
    /\ Len(SignificantDeltas) > 5
    /\ QLt(QI(0), MaxWithinReason(mde))
    /\ QLt(MaxWithinReason(mde), LargestDelta)
    /\ \E i \in 1..Len(SignificantDeltas) : QLt(SignificantDeltas[i], MaxWithinReason(mde))

(***************************************************************************)
(* tuner.rs: Grid                                                          *)
(*                                                                         *)
(* get_beta_index multiplies by 10.00000001.  Its values are kept as       *)
(* <<s, e>>, standing for s + e * 10^-8; products drop the 10^-16 term,    *)
(* which is below the resolution of an f64 at these magnitudes.  The       *)
(* 10^-8 part decides floor, ceil and comparisons only when the s parts    *)
(* tie; this is exact for betas on the 10^-6 grid that tune() rounds to.   *)
(*                                                                         *)
(* The table SIXTYHZ and its dimensions live in table.rs, which is not     *)
(* part of the sources at hand; they are modelled by a formula.            *)
(***************************************************************************)
DQ(q) == <<q, QI(0)>>
DAdd(a, b) == <<QAdd(a[1], b[1]), QAdd(a[2], b[2])>>
DSub(a, b) == <<QSub(a[1], b[1]), QSub(a[2], b[2])>>
DMul(a, b) == <<QMul(a[1], b[1]), QAdd(QMul(a[1], b[2]), QMul(a[2], b[1]))>>
DLt(a, b) == QLt(a[1], b[1]) \/ (a[1] = b[1] /\ QLt(a[2], b[2]))
DLe(a, b) == ~DLt(b, a)
DFloor(a) == IF a[1][2] = 1 /\ QLt(a[2], QI(0)) THEN a[1][1] - 1 ELSE QFloor(a[1])
DCeil(a) == IF a[1][2] = 1 /\ QLt(QI(0), a[2]) THEN a[1][1] + 1 ELSE QCeil(a[1])
QMin(a, b) == IF QLt(b, a) THEN b ELSE a
Max(i, j) == IF i < j THEN j ELSE i

J_DIM == 4
FC_DIM == 81
B_DIM == 47
SIXTYHZ(j, fc, b) == Q((j + 1) * (3 * fc + b), 30)

\* 10.00000001
Multiplier == <<QI(10), QI(1)>>

\* the loop with the test beta <= 1.0
RECURSIVE BetaLoopLe(_, _)
BetaLoopLe(beta, b_idx) ==
    IF DLe(beta, DQ(QI(1))) /\ b_idx > 0
    THEN BetaLoopLe(DMul(beta, Multiplier), b_idx - 9)
    ELSE <<beta, b_idx>>

\* while beta < 1.0 && b_idx > 0.0 { beta *= 10.00000001; b_idx -= 9.0; }
RECURSIVE BetaLoop(_, _)
BetaLoop(beta, b_idx) ==
    IF DLt(beta, DQ(QI(1))) /\ b_idx > 0
    THEN BetaLoop(DMul(beta, Multiplier), b_idx - 9)
    ELSE <<beta, b_idx>>

\* [beta, b_idx_lo, b_idx_hi]
GetBetaIndex(beta0) ==
    LET r     == BetaLoop(beta0, 46)
        beta  == r[1]
        b_idx == r[2]
    IN  IF b_idx < 0 THEN <<DQ(QI(0)), 0, 0>>
        ELSE LET v == DAdd(beta, DQ(QI(Max(b_idx - 1, 0))))
             IN  <<v, DFloor(v), DCeil(v)>>

\* f64 as usize saturates at 0
AsUsize(i) == IF i < 0 THEN 0 ELSE i

\* cutoff_hz / 0.05 - 0.05
FcIndex(cutoff_hz) == QSub(QDiv(cutoff_hz, Q(5, 100)), Q(5, 100))

\* a * (1.0 - w) + b * w
Lerp(a, b, w) == QAdd(QMul(a, QSub(QI(1), w)), QMul(b, w))

\* c0 * (1.0 - zd) + c1 * zd
DLerp(c0, c1, zd) == DAdd(DMul(DQ(c0), DSub(DQ(QI(1)), zd)), DMul(DQ(c1), zd))

\* xd, yd: the weight of the upper neighbour, 0.0 when the bracket is a point
Weight(idx, lo, hi) ==
    IF hi # lo THEN QDiv(QSub(idx, QI(lo)), QI(hi - lo)) ELSE QI(0)

\* zd
DWeight(b_idx, b_lo, b_hi) ==
    IF b_hi # b_lo THEN DMul(DSub(b_idx, DQ(QI(b_lo))), DQ(Q(1, b_hi - b_lo)))
    ELSE DQ(QI(0))

\* lines 63-80: the eight table entries and their interpolation; None when an
\* index is out of the table's bounds (panic)
Corners(xd, yd, zd, j_idx_lo, j_idx_hi, fc_idx_lo, fc_idx_hi, b_idx_lo, b_idx_hi) ==
    LET c000 == SIXTYHZ(j_idx_lo, fc_idx_lo, b_idx_lo)
        c100 == SIXTYHZ(j_idx_hi, fc_idx_lo, b_idx_lo)
        c010 == SIXTYHZ(j_idx_lo, fc_idx_hi, b_idx_lo)
        c110 == SIXTYHZ(j_idx_hi, fc_idx_hi, b_idx_lo)
        c001 == SIXTYHZ(j_idx_lo, fc_idx_lo, b_idx_hi)
        c101 == SIXTYHZ(j_idx_hi, fc_idx_lo, b_idx_hi)
        c011 == SIXTYHZ(j_idx_lo, fc_idx_hi, b_idx_hi)
        c111 == SIXTYHZ(j_idx_hi, fc_idx_hi, b_idx_hi)
        c00 == Lerp(c000, c100, xd)
        c01 == Lerp(c001, c101, xd)
        c10 == Lerp(c010, c110, xd)
        c11 == Lerp(c011, c111, xd)
        c0  == Lerp(c00, c10, yd)
        c1  == Lerp(c01, c11, yd)
    IN  IF j_idx_hi < J_DIM /\ fc_idx_hi < FC_DIM /\ b_idx_hi < B_DIM
        THEN Some(DLerp(c0, c1, zd))
        ELSE None

\* lines 36-61: the weights, and the brackets as usize
Brackets(j_idx, j_idx_lo, j_idx_hi, fc_idx, fc_idx_lo, fc_idx_hi, b_idx, b_idx_lo, b_idx_hi) ==
    Corners(Weight(j_idx, j_idx_lo, j_idx_hi), Weight(fc_idx, fc_idx_lo, fc_idx_hi),
            DWeight(b_idx, b_idx_lo, b_idx_hi),
            AsUsize(j_idx_lo), AsUsize(j_idx_hi), AsUsize(fc_idx_lo), AsUsize(fc_idx_hi),
            AsUsize(b_idx_lo), AsUsize(b_idx_hi))

\* lines 23-34: floor and ceil of the three indices
Indices(j_idx, fc_idx, vals) ==
    Brackets(j_idx, QFloor(j_idx), QCeil(j_idx), fc_idx, QFloor(fc_idx), QCeil(fc_idx),
             vals[1], vals[2], vals[3])

\* 3.0 * jitter - 1.0, then min((J_DIM - 1) as f64)
JIndex(jitter) == QMin(QSub(QMul(QI(3), jitter), QI(1)), QI(J_DIM - 1))

\* Grid::precision
Precision(jitter, cutoff_hz, beta) ==
    Indices(JIndex(jitter), FcIndex(cutoff_hz), GetBetaIndex(beta))

(***************************************************************************)
(* Grid on its own                                                         *)
(***************************************************************************)
\* a beta whose beta index is the integer c
LatticeBeta(c) ==
    IF c = 0 THEN DQ(Q(1, 1000000))
    ELSE IF c >= 46 THEN DQ(QI(c - 45))
    ELSE LET m == 5 - ((c - 1) \div 9)
             b == c - 9 * (5 - m)
             p == [i \in 1..6 |-> CASE i = 1 -> 10 [] i = 2 -> 100 [] i = 3 -> 1000
                                   [] i = 4 -> 10000 [] i = 5 -> 100000 [] i = 6 -> 1000000]
         IN  <<Q(b, p[m]), Q(-(m * b), p[m + 1])>>

GridJitters == {Q(a + 1, 3) : a \in 0..(J_DIM - 1)} \cup {Q(1, 6), Q(1, 2), QI(2)}
GridCutoffs == {Q(b + 1, 20) : b \in 0..(FC_DIM - 1)} \cup {Q(1, 10), Q(11, 100)}
GridBetas == {LatticeBeta(c) : c \in {0, 1, 9, 10, 37, 45, 46, 47}}
                 \cup {DQ(Q(975, 1000)), DQ(Q(1, 10)), DQ(Q(98, 1000000))}

\* the call to make, with its arguments drawn from the input sets
GridInit ==
    /\ \/ \E beta \in GridBetas :
             grid_call = [op |-> "get_beta_index", args |-> <<beta>>,
                          done |-> FALSE, value |-> <<>>]
       \/ \E jitter \in GridJitters, cutoff_hz \in GridCutoffs, beta \in GridBetas :
             grid_call = [op |-> "precision", args |-> <<jitter, cutoff_hz, beta>>,
                          done |-> FALSE, value |-> <<>>]
    /\ CalIdle /\ NeIdle /\ MdeIdle /\ TuneIdle

get_beta_index ==
    /\ grid_call.op = "get_beta_index" /\ ~grid_call.done
    /\ grid_call' = [grid_call EXCEPT !.done = TRUE,
                                      !.value = GetBetaIndex(grid_call.args[1])]
    /\ UNCHANGED not_grid

precision ==
    /\ grid_call.op = "precision" /\ ~grid_call.done
    /\ grid_call' = [grid_call EXCEPT !.done = TRUE,
                        !.value = Precision(grid_call.args[1], grid_call.args[2],
                                            grid_call.args[3])]
    /\ UNCHANGED not_grid

GridNext ==
    \/ get_beta_index
    \/ precision

SpecGrid == GridInit /\ [][GridNext]_vars

\* C9 as claimed: get_beta_index(1.0) brackets the index by [45, 45]
C9_BracketOfOneIs45 ==
    (grid_call.op = "get_beta_index" /\ grid_call.done /\ grid_call.args[1] = DQ(QI(1))) =>
        grid_call.value[2] = 45 /\ grid_call.value[3] = 45

\* C9, amended: get_beta_index(1.0) returns [46.0, 46.0, 46.0]; both bounds
\* of the bracket are 46
C9_BracketOfOneIs46 ==
    (grid_call.op = "get_beta_index" /\ grid_call.done /\ grid_call.args[1] = DQ(QI(1))) =>
        grid_call.value = <<DQ(QI(46)), 46, 46>>

\* C9 witness: get_beta_index(1.0) has been called
C9_Witness ==
    /\ grid_call.op = "get_beta_index"
    /\ grid_call.done
    /\ grid_call.args[1] = DQ(QI(1))
    /\ grid_call.value[2] = grid_call.value[3]

\* C10: at a lattice point (jitter = (a+1)/3, cutoff_hz = 0.05*(b+1), a beta
\* whose index is the integer c) precision returns table[a][b][c].
C10_LatticeIdentity ==
    (grid_call.op = "precision" /\ grid_call.done) =>
        LET a  == QSub(QMul(QI(3), grid_call.args[1]), QI(1))
            b  == QSub(QMul(QI(20), grid_call.args[2]), QI(1))
            bi == GetBetaIndex(grid_call.args[3])
            c  == bi[1][1]
        IN  (/\ a[2] = 1 /\ a[1] \in 0..(J_DIM - 1)
             /\ b[2] = 1 /\ b[1] \in 0..(FC_DIM - 1)
             /\ bi[1][2] = QI(0) /\ c[2] = 1 /\ c[1] \in 0..(B_DIM - 1))
            => grid_call.value = Some(DQ(SIXTYHZ(a[1], b[1], c[1])))

(***************************************************************************)
(* tuner.rs: Tuner                                                         *)
(*                                                                         *)
(* The one-euro filter is an external crate.  Of the filter only the two   *)
(* configuration fields tune() writes are kept; lag_s(), which runs the    *)
(* filter until it settles, is modelled by its loop counter cnt, chosen    *)
(* from LagCounts at every call.                                           *)
(***************************************************************************)
\* for min_hz in (10..400): first value, and the end of the range, which the
\* model bounds (400 in the source)
MinHzFirst == 10
MinHzEnd == 12
Scales == 5
StepsPerScale == 36

\* inputs
MaxTargetPrecisions == {Q(1, 24), Q(1, 6), Q(1, 2)}
MaxLagSecs == {Q(1, 20)}
NoiseStdDevs == {Q(1, 2)}
LagCounts == {2, 3, 4}

\* f64::sqrt on the noise variances of the model
Sqrt(q) == CHOOSE r \in NoiseStdDevs : QMul(r, r) = q

RECURSIVE Pow10(_)
Pow10(n) == IF n = 0 THEN 1 ELSE 10 * Pow10(n - 1)

\* 10f64.powi(-scale) / 4.0
Step(scale) == Q(1, 4 * Pow10(scale))

\* In scale 5 beta * 1e6 is a half-integer n + 1/2 in exact arithmetic and
\* the f64 product lies just below or above it.  TieDown holds the n for
\* which the IEEE-754 double evaluation of lines 167-168 rounds down to n
\* along the sweep; the other ties round up.
TieDown == {95, 90, 85, 80, 75, 72, 67, 62}

\* (beta * 1e6).round() / 1e6
RoundMicro(beta) ==
    LET v == QMul(beta, QI(1000000))
        n == QFloor(v)
    IN  IF v[2] = 1 THEN beta
        ELSE IF v[2] = 2 THEN (IF n \in TieDown THEN Q(n, 1000000) ELSE Q(n + 1, 1000000))
        ELSE IF QLt(QSub(v, QI(n)), Q(1, 2)) THEN Q(n, 1000000)
        ELSE Q(n + 1, 1000000)

TunerNew(settings) ==
    [filter   |-> [configuration |-> [cutoff_min |-> QI(1), beta |-> QI(1)]],
     settings |-> settings]

\* the acceptance test without the precision comparison
AcceptAnyPrecision(best_lag_s, best_precision, max_lag_secs, lag_s, prec) ==
    IF QLe(best_lag_s, max_lag_secs)
    THEN ~(QLe(max_lag_secs, lag_s))
    ELSE QLe(lag_s, best_lag_s)

\* the acceptance test without the lag bound
AcceptAnyLag(best_lag_s, best_precision, max_lag_secs, lag_s, prec) ==
    IF QLe(best_lag_s, max_lag_secs)
    THEN ~(DLt(best_precision, prec))
    ELSE QLe(lag_s, best_lag_s)

\* the acceptance test that takes only candidates within the lag bound
AcceptOnlyFeasible(best_lag_s, best_precision, max_lag_secs, lag_s, prec) ==
    IF QLe(best_lag_s, max_lag_secs)
    THEN ~(QLe(max_lag_secs, lag_s) \/ DLt(best_precision, prec))
    ELSE QLe(lag_s, max_lag_secs)

\* let accept = ... (lines 180-184)
Accept(best_lag_s, best_precision, max_lag_secs, lag_s, prec) ==
    IF QLe(best_lag_s, max_lag_secs)
    THEN ~(QLe(max_lag_secs, lag_s) \/ DLt(best_precision, prec))
    ELSE QLe(lag_s, best_lag_s)

NoCandidate == <<>>

TuneInit ==
    /\ \E tp \in MaxTargetPrecisions, ml \in MaxLagSecs, sd \in NoiseStdDevs :
          tuner = TunerNew([max_target_precision |-> tp, max_lag_secs |-> ml,
                            noise_variance |-> QMul(sd, sd), max_amplitude |-> QI(1),
                            sample_rate |-> QI(60)])
    /\ tune = [pc |-> "start"]
    /\ tune_ret = None
    /\ tune_obs = [last |-> NoCandidate, feasible_seen |-> FALSE,
                   sweep_target |-> QI(0), sweeps |-> 0,
                   examined |-> 0, cutoffs |-> 0, betas |-> 0,
                   passed_seen |-> FALSE, accepted_seen |-> FALSE]
    /\ CalIdle /\ NeIdle /\ MdeIdle /\ GridIdle

\* history: nothing has been seen of a sweep that starts
NewSweep(obs) ==
    [obs EXCEPT !.feasible_seen = FALSE, !.examined = 0, !.cutoffs = 0, !.betas = 0,
                !.passed_seen = FALSE, !.accepted_seen = FALSE]

\* history: one more candidate of the sweep, of cutoff min_hz; it is one more
\* beta of the cutoff of the candidate before it, or the first of a new cutoff
Examined(obs, min_hz) ==
    IF obs.examined = 0 \/ obs.last.min_hz # min_hz
    THEN [obs EXCEPT !.examined = @ + 1, !.cutoffs = @ + 1, !.betas = 1]
    ELSE [obs EXCEPT !.examined = @ + 1, !.betas = @ + 1]

\* the loop variables at the head of a sweep
SweepHead(t) ==
    IF MinHzFirst < MinHzEnd
    THEN [t EXCEPT !.pc = "sweep", !.min_hz = MinHzFirst, !.beta = QI(1),
                   !.scale = 1, !.i = 0]
    ELSE [t EXCEPT !.pc = "sweep_end"]

\* lines 150-158: the locals, and the first test of the while condition
tune_start ==
    /\ tune.pc = "start"
    /\ LET t == [pc |-> "start",
                 noise_stddev       |-> Sqrt(tuner.settings.noise_variance),
                 best_precision     |-> DQ(QI(F64_MAX)),
                 best_lag_s         |-> QI(F64_MAX),
                 best_min_cutoff_hz |-> None,
                 best_beta          |-> Q(11, 10),
                 target_precision   |-> tuner.settings.max_target_precision,
                 min_hz |-> MinHzFirst, beta |-> QI(1), scale |-> 1, i |-> 0]
       IN  /\ tune' = SweepHead(t)
           /\ tuner' = IF MinHzFirst < MinHzEnd
                       THEN [tuner EXCEPT !.filter.configuration.cutoff_min = Q(MinHzFirst, 100)]
                       ELSE tuner
           /\ tune_obs' = [NewSweep(tune_obs) EXCEPT !.sweeps = 1,
                              !.sweep_target = tuner.settings.max_target_precision]
    /\ UNCHANGED tune_ret
    /\ UNCHANGED not_tune

\* the loop variables after one pass, with for scale in 1..5
AdvanceFourScales(t) ==
    IF t.i + 1 < StepsPerScale THEN [t EXCEPT !.i = t.i + 1]
    ELSE IF t.scale < Scales - 1 THEN [t EXCEPT !.i = 0, !.scale = t.scale + 1]
    ELSE IF t.min_hz + 1 < MinHzEnd
         THEN [t EXCEPT !.i = 0, !.scale = 1, !.beta = QI(1), !.min_hz = t.min_hz + 1]
    ELSE [t EXCEPT !.pc = "sweep_end"]

\* the loop variables after one pass of the innermost loop body
Advance(t) ==
    IF t.i + 1 < StepsPerScale THEN [t EXCEPT !.i = t.i + 1]
    ELSE IF t.scale < Scales THEN [t EXCEPT !.i = 0, !.scale = t.scale + 1]
    ELSE IF t.min_hz + 1 < MinHzEnd
         THEN [t EXCEPT !.i = 0, !.scale = 1, !.beta = QI(1), !.min_hz = t.min_hz + 1]
    ELSE [t EXCEPT !.pc = "sweep_end"]

\* lines 176-193: the candidate (min_hz, beta) of precision prec, once it has
\* passed the filter; next is the loop variables after the candidate and
\* cutoff the filter's cutoff_min then
Measure(beta, min_hz, prec, next, cutoff, lag_s, accept) ==
    /\ tune' = IF accept
               THEN [next EXCEPT !.best_precision = prec,
                                 !.best_lag_s = lag_s,
                                 !.best_beta = beta,
                                 !.best_min_cutoff_hz = Some(min_hz)]
               ELSE next
    /\ tuner' = [tuner EXCEPT !.filter.configuration.beta = beta,
                              !.filter.configuration.cutoff_min = cutoff]
    /\ tune_obs' = [Examined(tune_obs, min_hz) EXCEPT
          !.feasible_seen = @ \/ QLe(lag_s, tuner.settings.max_lag_secs),
          !.passed_seen = TRUE,
          !.accepted_seen = @ \/ accept,
          !.last = [min_hz |-> min_hz, beta |-> beta,
                    precision |-> prec, passed |-> TRUE,
                    lag_s |-> lag_s,
                    best_lag_s |-> tune.best_lag_s,
                    best_precision |-> tune.best_precision]]

\* lines 178-184: lag_s and accept
Lag(beta, min_hz, prec, next, cutoff, lag_s) ==
    Measure(beta, min_hz, prec, next, cutoff, lag_s,
            Accept(tune.best_lag_s, tune.best_precision,
                   tuner.settings.max_lag_secs, lag_s, prec))

\* lines 172-178: the precision filter; cnt is the number of filter steps
\* lag_s takes
Filter(beta, min_hz, prec, next, cutoff) ==
    IF DLt(DQ(tune.target_precision), prec)
    THEN /\ tune' = next
         /\ tuner' = [tuner EXCEPT !.filter.configuration.cutoff_min = cutoff]
         /\ tune_obs' = [Examined(tune_obs, min_hz) EXCEPT !.last =
               [min_hz |-> min_hz, beta |-> beta, precision |-> prec, passed |-> FALSE]]
    ELSE \E cnt \in LagCounts :
            Lag(beta, min_hz, prec, next, cutoff, QDiv(QI(cnt), tuner.settings.sample_rate))

\* line 170: an index out of the table's bounds ends tune() in a panic
Indexed(beta, min_hz, prec, next) ==
    IF prec = None
    THEN /\ tune' = [tune EXCEPT !.beta = beta, !.pc = "panic"]
         /\ UNCHANGED <<tuner, tune_obs>>
    ELSE Filter(beta, min_hz, Unwrap(prec), next,
                IF next.pc = "sweep" THEN Q(next.min_hz, 100) ELSE min_hz)

\* line 170
Candidate(beta, min_hz) ==
    Indexed(beta, min_hz, Precision(tune.noise_stddev, min_hz, DQ(beta)),
            Advance([tune EXCEPT !.beta = beta]))

\* lines 167-193: one pass of the innermost loop body
tune_candidate ==
    /\ tune.pc = "sweep"
    /\ Candidate(RoundMicro(QSub(tune.beta, Step(tune.scale))), Q(tune.min_hz, 100))
    /\ UNCHANGED tune_ret
    /\ UNCHANGED not_tune

\* line 198, then the while condition holds: another sweep
tune_next_sweep ==
    /\ tune.pc = "sweep_end"
    /\ tune.best_precision = DQ(QI(F64_MAX))
    /\ LET target == QAdd(tune.target_precision, Q(1, 3))
       IN  /\ tune' = SweepHead([tune EXCEPT !.target_precision = target])
           /\ tune_obs' = [NewSweep(tune_obs) EXCEPT !.sweeps = @ + 1,
                                                     !.sweep_target = target]
    /\ tuner' = IF MinHzFirst < MinHzEnd
                THEN [tuner EXCEPT !.filter.configuration.cutoff_min = Q(MinHzFirst, 100)]
                ELSE tuner
    /\ UNCHANGED tune_ret
    /\ UNCHANGED not_tune

\* line 198, then the while condition fails: lines 201-204
tune_return ==
    /\ tune.pc = "sweep_end"
    /\ tune.best_precision # DQ(QI(F64_MAX))
    /\ tune' = [tune EXCEPT !.pc = "done",
                            !.target_precision = QAdd(tune.target_precision, Q(1, 3))]
    /\ tune_ret' = IF IsSome(tune.best_min_cutoff_hz)
                   THEN Some([min_cutoff_hz |-> Unwrap(tune.best_min_cutoff_hz),
                              beta |-> tune.best_beta])
                   ELSE None
    /\ UNCHANGED <<tuner, tune_obs>>
    /\ UNCHANGED not_tune

TuneNext ==
    \/ tune_start
    \/ tune_candidate
    \/ tune_next_sweep
    \/ tune_return

SpecTune == TuneInit /\ [][TuneNext]_vars

\* the candidate tune_obs.last was accepted: the best pair is the candidate
Accepted ==
    /\ tune.best_beta = tune_obs.last.beta
    /\ tune.best_min_cutoff_hz = Some(tune_obs.last.min_hz)

\* a candidate has been examined and it passed the precision filter
PassedCandidate ==
    /\ tune_obs.last # NoCandidate
    /\ tune_obs.last.passed

\* the four best-so-far variables after the candidate: the candidate's values
\* when it was accepted, the values before it when it was not
BestFollowsAccept ==
    IF Accepted
    THEN /\ tune.best_precision = tune_obs.last.precision
         /\ tune.best_lag_s = tune_obs.last.lag_s
    ELSE /\ tune.best_precision = tune_obs.last.best_precision
         /\ tune.best_lag_s = tune_obs.last.best_lag_s

\* C7 as stated: a candidate that passed the precision filter is accepted,
\* when best_lag_s <= max_lag_secs, exactly when lag_s <= max_lag_secs and its
\* precision is no worse than the best precision; otherwise exactly when
\* lag_s is strictly lower than best_lag_s.
C7_AcceptRuleAsStated ==
    PassedCandidate =>
        LET c == tune_obs.last
            max_lag_secs == tuner.settings.max_lag_secs
        IN  IF QLe(c.best_lag_s, max_lag_secs)
            THEN Accepted <=> (QLe(c.lag_s, max_lag_secs) /\ DLe(c.precision, c.best_precision))
            ELSE Accepted <=> QLt(c.lag_s, c.best_lag_s)

\* C7 amended: a candidate that passed the precision filter is accepted, when
\* best_lag_s <= max_lag_secs, exactly when lag_s is strictly below
\* max_lag_secs and its precision is no worse than the best precision;
\* otherwise exactly when lag_s is lower than or equal to best_lag_s.  On
\* acceptance the best precision, lag, beta and cutoff become the candidate's,
\* and a rejected candidate leaves them as they were.
C7_AcceptRule ==
    PassedCandidate =>
        LET c == tune_obs.last
            max_lag_secs == tuner.settings.max_lag_secs
        IN  /\ IF QLe(c.best_lag_s, max_lag_secs)
               THEN Accepted <=> (QLt(c.lag_s, max_lag_secs) /\ DLe(c.precision, c.best_precision))
               ELSE Accepted <=> QLe(c.lag_s, c.best_lag_s)
            /\ BestFollowsAccept

\* a candidate that passed the filter with a precision no worse than the best
\* one and a lag equal to max_lag_secs, met when the best lag already meets
\* the bound: it is rejected
C7_Witness ==
    /\ PassedCandidate
    /\ QLe(tune_obs.last.best_lag_s, tuner.settings.max_lag_secs)
    /\ tune_obs.last.lag_s = tuner.settings.max_lag_secs
    /\ DLe(tune_obs.last.precision, tune_obs.last.best_precision)
    /\ ~Accepted

\* what tune returns satisfies the precision target of the last sweep and,
\* when a candidate of that sweep that passed the filter met the lag bound,
\* the lag bound
C8_Returned ==
    (tune.pc = "done" /\ IsSome(tune_ret)) =>
        LET r == Unwrap(tune_ret)
            p == Precision(tune.noise_stddev, r.min_cutoff_hz, DQ(r.beta))
        IN  /\ r.min_cutoff_hz = Unwrap(tune.best_min_cutoff_hz)
            /\ IsSome(p)
            /\ Unwrap(p) = tune.best_precision
            /\ DLe(Unwrap(p), DQ(tune_obs.sweep_target))
            /\ tune_obs.feasible_seen => QLe(tune.best_lag_s, tuner.settings.max_lag_secs)

\* once the best lag meets the bound, a step of the sweep keeps it within the
\* bound and does not make the best precision worse
C8_FeasibleStays ==
    (tune.pc = "sweep" /\ QLe(tune.best_lag_s, tuner.settings.max_lag_secs)) =>
        /\ QLe(tune'.best_lag_s, tuner.settings.max_lag_secs)
        /\ DLe(tune'.best_precision, tune.best_precision)

\* a candidate of the sweep that passed the filter and met the lag bound makes
\* the best lag meet the bound
C8_FeasibleTaken ==
    (tune.pc = "sweep" /\ tune_obs'.feasible_seen) =>
        QLe(tune'.best_lag_s, tuner.settings.max_lag_secs)

\* C8: whenever tune returns a pair (min_cutoff_hz, beta), the Grid precision
\* of the pair is <= the target precision of the sweep in which it was
\* accepted, and its lag_s is <= max_lag_secs whenever a candidate of that
\* sweep that passed the precision filter had lag_s <= max_lag_secs; once the
\* best lag meets the bound it meets it for the rest of the sweep, and the
\* best precision never gets worse from then on.
C8_ReturnedPairMeetsTargets ==
    /\ []C8_Returned
    /\ [][C8_FeasibleStays /\ C8_FeasibleTaken]_vars

\* tune returns after a relaxation of the target, in a sweep in which a
\* candidate met the lag bound and a later candidate of a lag above the bound
\* was turned down
C8_Witness ==
    /\ tune.pc = "done"
    /\ IsSome(tune_ret)
    /\ tune_obs.sweeps = 2
    /\ tune_obs.feasible_seen
    /\ PassedCandidate
    /\ QLt(tuner.settings.max_lag_secs, tune_obs.last.lag_s)
    /\ QLe(tune.best_lag_s, tuner.settings.max_lag_secs)

\* the number of candidates of a sweep
SweepSize == (MinHzEnd - MinHzFirst) * Scales * StepsPerScale

\* tune() is in its loop or has returned; a sweep ends only after all its
\* candidates; in a sweep a candidate has been accepted exactly when one has
\* passed the precision filter, and exactly then the loop condition
\* best_precision == f64::MAX is false; what tune() returns is Some
C11_State ==
    /\ tune.pc \in {"start", "sweep", "sweep_end", "done"}
    /\ tune.pc \in {"sweep_end", "done"} => tune_obs.examined = SweepSize
    /\ tune.pc \in {"sweep", "sweep_end"} =>
          /\ tune_obs.accepted_seen <=> tune_obs.passed_seen
          /\ tune_obs.accepted_seen <=> tune.best_precision # DQ(QI(F64_MAX))
    /\ tune.pc = "sweep_end" /\ ~tune_obs.accepted_seen => ENABLED tune_next_sweep
    /\ tune.pc = "done" => tune_obs.accepted_seen /\ IsSome(tune_ret)

\* the step after a sweep: with no candidate accepted, target_precision goes
\* up by 1/3 and the sweep starts again at its first candidate, however many
\* sweeps there have been; with a candidate accepted, tune() returns
C11_Step ==
    tune.pc = "sweep_end" =>
        IF tune_obs.accepted_seen
        THEN tune'.pc = "done" /\ IsSome(tune_ret')
        ELSE /\ tune'.pc = "sweep"
             /\ tune'.target_precision = QAdd(tune.target_precision, Q(1, 3))
             /\ tune'.min_hz = MinHzFirst /\ tune'.beta = QI(1)
             /\ tune'.scale = 1 /\ tune'.i = 0
             /\ tune_obs'.examined = 0
             /\ tune_obs'.sweeps = tune_obs.sweeps + 1

\* C11: tune runs complete sweeps; after a full sweep in which no candidate
\* was accepted it raises target_precision by 1/3 and repeats the whole
\* sweep, with no bound on the number of sweeps; it leaves the loop at the end
\* of the first sweep in which a candidate was accepted, which is the first
\* sweep in which a candidate passes the precision filter; what it returns is
\* Some.
C11_CompleteSweepsUntilAccepted ==
    /\ []C11_State
    /\ [][C11_Step]_vars

\* tune has returned after two sweeps without a candidate that passed the
\* filter and a third one with an accepted candidate
C11_Witness ==
    /\ tune.pc = "done"
    /\ IsSome(tune_ret)
    /\ tune_obs.sweeps = 3
    /\ tune_obs.examined = SweepSize
    /\ tune_obs.accepted_seen

\* the number of betas a sweep visits for one cutoff
BetasPerCutoff == Scales * StepsPerScale

\* a candidate follows the one before it: the first candidate of a sweep has
\* the cutoff 0.10; the betas of a cutoff start below 1.0 and strictly
\* decrease; a cutoff follows after all the betas of the cutoff before it,
\* and is 0.01 above it; every beta is strictly positive
C12_Step ==
    (tune.pc = "sweep" /\ tune'.pc # "panic") =>
        LET c == tune_obs'.last
            p == tune_obs.last
        IN  /\ tune_obs'.examined = tune_obs.examined + 1
            /\ QLt(QI(0), c.beta)
            /\ tune_obs'.betas \in 1..BetasPerCutoff
            /\ c.min_hz = Q(MinHzFirst + tune_obs'.cutoffs - 1, 100)
            /\ IF tune_obs'.betas = 1
               THEN /\ QLt(c.beta, QI(1))
                    /\ tune_obs'.cutoffs = tune_obs.cutoffs + 1
                    /\ tune_obs.examined > 0 =>
                          /\ tune_obs.betas = BetasPerCutoff
                          /\ c.min_hz = QAdd(p.min_hz, Q(1, 100))
               ELSE /\ c.min_hz = p.min_hz
                    /\ tune_obs'.cutoffs = tune_obs.cutoffs
                    /\ QLt(c.beta, p.beta)

\* the last cutoff of a sweep is the end value of the range (4.00 of
\* 10..400; MinHzEnd / 100 here)
C12_EndIncluded ==
    tune.pc = "sweep_end" =>
        /\ tune_obs.last.min_hz = Q(MinHzEnd, 100)
        /\ tune_obs.cutoffs = MinHzEnd - MinHzFirst + 1
        /\ tune_obs.betas = BetasPerCutoff

\* the last cutoff of a sweep is 0.01 below the end value of the range (3.99
\* of 10..400; (MinHzEnd - 1) / 100 here)
C12_EndExcluded ==
    tune.pc = "sweep_end" =>
        /\ tune_obs.last.min_hz = Q(MinHzEnd - 1, 100)
        /\ tune_obs.cutoffs = MinHzEnd - MinHzFirst
        /\ tune_obs.betas = BetasPerCutoff

\* C12 as stated: each sweep visits the cutoffs from 0.10 to 4.00 in 0.01
\* steps, in increasing order, both end values included, and for each cutoff
\* 180 betas that start below 1.0, strictly decrease and stay strictly
\* positive.
C12_SweepOrderAsStated ==
    /\ []C12_EndIncluded
    /\ [][C12_Step]_vars

\* C12 amended: each sweep visits the cutoffs from 0.10 to 3.99 in 0.01
\* steps, in increasing order, 0.10 included and 4.00 excluded, and for each
\* cutoff 180 betas that start below 1.0, strictly decrease and stay strictly
\* positive.
C12_SweepOrder ==
    /\ []C12_EndExcluded
    /\ [][C12_Step]_vars

\* a sweep has ended: its last candidate is the 180th beta, 0.00002, of its
\* last cutoff, which is not its first
C12_Witness ==
    /\ tune.pc = "sweep_end"
    /\ tune_obs.cutoffs > 1
    /\ tune_obs.betas = BetasPerCutoff
    /\ tune_obs.last.beta = Q(2, 100000)
    /\ tune_obs.last.min_hz = Q(MinHzEnd - 1, 100)

(***************************************************************************)
(* SixtyHzThreeAxisNoiseEstimator inside the Calibrator: what update folds *)
(* into the shared RunningStatistics.  N stands for the 60 samples of the  *)
(* buffers and FreqCnt for the 20 frequencies; k, the number of update     *)
(* calls made, is the count of the NoiseEstimators.                        *)
(***************************************************************************)
\* the number of update calls the noise estimator t has had
UpdateCalls(t) == t.x[1].count

\* the values one update call folds once the variances are defined: one for
\* each axis and frequency
FoldedPerCall == 3 * FreqCnt

\* every NoiseEstimator has had the k updates; nothing is folded during the
\* first N calls and FoldedPerCall values in each later call, all variances
\* being defined then; a process_noise call among the first N returns false;
\* the statistics count is never 1 where update evaluates the ratio
C13_State ==
    LET t == calibrator.noise_estimator
        k == UpdateCalls(t)
    IN  /\ \A i \in 1..FreqCnt :
              /\ t.x[i].count = k /\ t.y[i].count = k /\ t.z[i].count = k
              /\ k > N => /\ IsSome(NoiseEstimatorVariance(t.x[i]))
                          /\ IsSome(NoiseEstimatorVariance(t.y[i]))
                          /\ IsSome(NoiseEstimatorVariance(t.z[i]))
        /\ t.stats.count = IF k <= N THEN 0 ELSE FoldedPerCall * (k - N)
        /\ t.stats.count # 1
        /\ k <= N => t.stats = RunningStatisticsDefault
        /\ (ret.op = "process_noise" /\ k <= N) => ret.value = FALSE

\* one update call: none of the values folded during the first N calls,
\* FoldedPerCall of them in every later call
C13_Step ==
    ret'.op = "process_noise" =>
        LET t == calibrator.noise_estimator
            u == calibrator'.noise_estimator
        IN  /\ UpdateCalls(u) = UpdateCalls(t) + 1
            /\ u.stats.count - t.stats.count =
                  IF UpdateCalls(u) <= N THEN 0 ELSE FoldedPerCall

\* C13: during the first 60 update calls of SixtyHzThreeAxisNoiseEstimator no
\* value is folded into the shared RunningStatistics and update returns
\* false; on every later call all three axes report a defined variance for
\* each of the 20 frequencies, so exactly 60 values are folded per call (count
\* = 60 * (k - 60) after k > 60 calls); so the ratio 2 * ci95 / mean is never
\* evaluated while the statistics count is 1.
C13_FoldedPerCall ==
    /\ []C13_State
    /\ [][C13_Step]_vars

\* two update calls after the first N have folded their values
C13_Witness ==
    /\ ret.op = "process_noise"
    /\ UpdateCalls(calibrator.noise_estimator) = N + 2
    /\ calibrator.noise_estimator.stats.count = 2 * FoldedPerCall

(***************************************************************************)
(* Calibrator: process_noise after the amplitude stage has begun.  The     *)
(* field was of ret is history: the amplitude estimator the call found.    *)
(***************************************************************************)
\* an amplitude estimator as ThreeAxisMaxDistanceEstimator::new leaves it
Fresh(a) ==
    /\ a.x = MaxDistanceEstimatorNew
    /\ a.y = MaxDistanceEstimatorNew
    /\ a.z = MaxDistanceEstimatorNew
    /\ MaxDistanceEstimatorNew.previous = None
    /\ \A i \in 1..SpeedSlots : MaxDistanceEstimatorNew.speeds[i] = QI(0)

\* the amplitude estimator a holds a maximum recorded by process_amplitude
Recorded(a) ==
    \E i \in 1..SpeedSlots :
        \/ QLt(QI(0), a.x.speeds[i])
        \/ QLt(QI(0), a.y.speeds[i])
        \/ QLt(QI(0), a.z.speeds[i])

\* a process_noise call that returns true, in whatever calibration state and
\* whatever the amplitude estimator holds, sets a freshly constructed
\* amplitude estimator seeded with the mean_variance() of the noise estimator
\* and leaves the amplitude, least_precision, worst_lag_secs and
\* noise_std_dev as they were; one that returns false leaves the amplitude
\* estimator as it was
C14_Step ==
    ret'.op = "process_noise" =>
        IF ret'.value
        THEN /\ IsSome(calibrator'.amplitude_estimator)
             /\ Fresh(Unwrap(calibrator'.amplitude_estimator))
             /\ Unwrap(calibrator'.amplitude_estimator).noise_std_dev =
                   MeanVariance(calibrator'.noise_estimator)
             /\ calibrator'.amplitude = calibrator.amplitude
             /\ calibrator'.noise_std_dev = calibrator.noise_std_dev
             /\ calibrator'.state = "NoiseEstimateComplete"
        ELSE /\ calibrator'.amplitude_estimator = calibrator.amplitude_estimator
             /\ calibrator'.amplitude = calibrator.amplitude
             /\ calibrator'.state = calibrator.state

\* C14: process_noise is not guarded by the calibration state: every call
\* that returns true, including one made after amplitude samples were
\* processed, replaces the amplitude estimator with a freshly constructed one
\* (no previous sample, all five maxima 0), so the maxima recorded by earlier
\* process_amplitude calls are discarded, while an already finalized amplitude
\* is left unchanged.
C14_NoiseResetsAmplitudeEstimator == [][C14_Step]_vars

\* process_noise has returned true with a finalized amplitude and an
\* amplitude estimator that held a recorded maximum: the estimator is fresh
\* and the amplitude still there
C14_Witness ==
    /\ ret.op = "process_noise"
    /\ ret.value = TRUE
    /\ IsSome(ret.was)
    /\ Recorded(Unwrap(ret.was))
    /\ IsSome(calibrator.amplitude)
    /\ IsSome(calibrator.amplitude_estimator)
    /\ Fresh(Unwrap(calibrator.amplitude_estimator))

====
